---- MODULE Spec2Model ----
(***************************************************************************)
(* Outfit-layer history and pose-cache state machine of the virtual        *)
(* try-on studio (src/App.tsx), together with the callers that invoke it   *)
(* (wardrobe panel, canvas), the asynchronous generation requests, the     *)
(* saved-outfit list and the gateway's reading of a response.              *)
(*                                                                         *)
(* React semantics used throughout: a handler invoked by a user event      *)
(* reads the state of the latest render; code that runs after an `await`   *)
(* keeps the values its closure captured when the handler was invoked,     *)
(* and only functional updates (setX(prev => ...)) see the current state.  *)
(***************************************************************************)
EXTENDS Integers, Sequences, FiniteSets

\* ---------------------------------------------------------------- bounds
NumPoses == 3            \* poses of POSE_INSTRUCTIONS kept in the model
MaxMenuPose == 1         \* last entry of the pose menu that is picked, where the menu is bounded
NumDefaultGarments == 1  \* items of defaultWardrobe kept in the model
MaxLayers == 3           \* layers outfitHistory may grow to
MaxUploads == 1          \* uploaded garments known at once
MaxClicks == 2           \* wardrobe clicks waiting for urlToFile at once
MaxInFlight == 2         \* image-generation requests in flight at once
MaxVideoTasks == 2       \* handleGenerateVideo calls running at once
MaxSaved == 2            \* saved outfits kept at once
MaxCandidates == 2       \* candidates of a generateContent response
MaxParts == 2            \* parts of a candidate's content
MaxTextLen == 2          \* characters of a response's text

\* ------------------------------------------------------------ value space
Null == 0                \* garment: null (base layer)
Undef == -1              \* garment: undefined (layer object without the field)
HoleMark == -2           \* an empty slot of a sparse array

Min(a, b) == IF a < b THEN a ELSE b
Max(a, b) == IF a > b THEN a ELSE b

Poses == 0..(NumPoses - 1)
\* The entries of Canvas's pose menu that are picked where the menu is bounded.
MenuPoses == 0..Min(MaxMenuPose, NumPoses - 1)
defaultWardrobe == [i \in 1..NumDefaultGarments |-> i]
CustomIds == (NumDefaultGarments + 1)..(NumDefaultGarments + MaxUploads)

\* An image reference: the garment last composited into it (g), the pose it
\* shows (pose), and a number (n) telling apart the results of distinct calls.
NoImage == [g |-> Null, pose |-> 0, n |-> -1]
ModelImage == [g |-> Null, pose |-> 0, n |-> 0]

Hole == [garment |-> HoleMark, poseImages |-> <<>>]
IsHole(layer) == layer.garment = HoleMark

VARIABLES
  modelImageUrl,        \* NoImage or the finalized model image
  outfitHistory,        \* sequence of layers [garment, poseImages]
  currentOutfitIndex,   \* 0-based cursor into outfitHistory
  isLoading,
  loadingMessage,
  error,
  currentPoseIndex,
  wardrobe,             \* sequence of garment ids
  videoUrls,            \* sequence of video references
  isVideoLoading,
  clicks,               \* handleGarmentClick calls awaiting urlToFile
  requests,             \* image-generation calls in flight
  videoTasks,           \* handleGenerateVideo calls in flight
  savedOutfits,         \* sequence of saved outfits [id, imageUrl, items], newest first
  response,             \* the GenerateContentResponse handed to handleApiResponse
  result,               \* what handleApiResponse returned or threw for it
  storage,              \* localStorage['wear-fit-saved-outfits']
  mount,                \* App's mount: the list read from storage, until it is rendered
  chain,                \* history variable: the operations just performed in a row
  scn                   \* history variable: progress through the end-to-end scenario

vars == <<modelImageUrl, outfitHistory, currentOutfitIndex, isLoading,
          loadingMessage, error, currentPoseIndex, wardrobe, videoUrls,
          isVideoLoading, clicks, requests, videoTasks, savedOutfits, response,
          result, storage, mount, chain, scn>>

\* ------------------------------------------------- pose -> image mappings
\* An insertion-ordered mapping: a sequence of [pose, img] entries.
HasPose(pi, p) == \E k \in 1..Len(pi) : pi[k].pose = p

GetPose(pi, p) == pi[CHOOSE k \in 1..Len(pi) : pi[k].pose = p].img

\* Mutant of PutPose: the mapping is replaced by the new entry alone.
PutPose_OnlyNew(pi, p, img) == <<[pose |-> p, img |-> img]>>

\* { ...pi, [p]: img }: an existing key keeps its place, a new key goes last.
PutPose(pi, p, img) ==
  IF HasPose(pi, p)
    THEN [k \in 1..Len(pi) |-> IF pi[k].pose = p THEN [pose |-> p, img |-> img] ELSE pi[k]]
    ELSE Append(pi, [pose |-> p, img |-> img])

PoseKeys(pi) == [k \in 1..Len(pi) |-> pi[k].pose]

\* array.slice(0, n)
Slice(s, n) == SubSeq(s, 1, Min(n, Len(s)))

\* Mutant of LastTwo: the slice is forgotten.
LastTwo_KeepsAll(s) == s

\* array.slice(-2)
LastTwo(s) == SubSeq(s, Max(1, Len(s) - 1), Len(s))

\* array[i] for a 0-based i: Hole stands for undefined.
At(s, i) == IF i >= 0 /\ i < Len(s) THEN s[i + 1] ELSE Hole

\* ------------------------------------------------------------ derived view
activeOutfitLayers == Slice(outfitHistory, currentOutfitIndex + 1)

activeGarmentIds ==
  {activeOutfitLayers[k].garment : k \in 1..Len(activeOutfitLayers)} \ {Null, Undef, HoleMark}

displayImageUrl ==
  IF Len(outfitHistory) = 0 THEN modelImageUrl
  ELSE LET currentLayer == At(outfitHistory, currentOutfitIndex) IN
       IF IsHole(currentLayer) THEN modelImageUrl
       ELSE IF HasPose(currentLayer.poseImages, currentPoseIndex)
              THEN GetPose(currentLayer.poseImages, currentPoseIndex)
            ELSE IF Len(currentLayer.poseImages) > 0
              THEN currentLayer.poseImages[1].img
            ELSE NoImage

availablePoseKeys ==
  IF Len(outfitHistory) = 0 THEN <<>>
  ELSE LET currentLayer == At(outfitHistory, currentOutfitIndex) IN
       IF IsHole(currentLayer) THEN <<>> ELSE PoseKeys(currentLayer.poseImages)

\* The dressing screen (Canvas, OutfitStack, WardrobePanel) is mounted.
OnDressingScreen == modelImageUrl # NoImage

\* What the panels receive as their isLoading prop.
PanelLoading == isLoading \/ isVideoLoading

\* ------------------------------------------------------- history variables
NoChain == [k |-> "none", g |-> Null, hist |-> <<>>, idx |-> -1, rq |-> {},
            pose |-> 0, vids |-> 0]
NoScn == [st |-> -1, g1 |-> Null]

Idle == clicks = <<>> /\ requests = {} /\ videoTasks = <<>>

\* Every field but modelImageUrl and outfitHistory has its initial value.
FreshState ==
  /\ currentOutfitIndex = 0 /\ currentPoseIndex = 0
  /\ ~isLoading /\ ~isVideoLoading /\ loadingMessage = "" /\ error = ""
  /\ wardrobe = defaultWardrobe /\ videoUrls = <<>>

\* ------------------------------------------------------- fresh references
\* seq with its i-th element removed
RemoveAt(s, i) == [k \in 1..(Len(s) - 1) |-> IF k < i THEN s[k] ELSE s[k + 1]]

\* The least positive integer outside `used`.
Fresh(used) ==
  CHOOSE n \in 1..(Cardinality(used) + 1) :
    n \notin used /\ \A m \in 1..(n - 1) : m \in used

LayerImages(h) ==
  UNION {{h[k].poseImages[j].img : j \in 1..Len(h[k].poseImages)} : k \in 1..Len(h)}

\* The images some part of the state still refers to.
UsedImages ==
  LayerImages(outfitHistory) \cup LayerImages(chain.hist)
    \cup {videoTasks[k].src : k \in 1..Len(videoTasks)}
    \cup {videoUrls[k].src : k \in 1..Len(videoUrls)}
    \cup {savedOutfits[k].imageUrl : k \in 1..Len(savedOutfits)}

\* The reference a generation call returns: a new one, different from every
\* reference still in use.
NewImage(g, pose) ==
  [g |-> g, pose |-> pose,
   n |-> Fresh({i.n : i \in {j \in UsedImages : j.g = g /\ j.pose = pose}})]

\* URL.createObjectURL(blob): a new reference for the video made from src.
NewVideo(src) ==
  [src |-> src,
   n |-> Fresh({videoUrls[k].n : k \in {j \in 1..Len(videoUrls) : videoUrls[j].src = src}})]

\* Garment ids some part of the state still refers to.
UsedGarmentIds ==
  {wardrobe[k] : k \in 1..Len(wardrobe)}
    \cup {outfitHistory[k].garment : k \in 1..Len(outfitHistory)}
    \cup {chain.hist[k].garment : k \in 1..Len(chain.hist)}
    \cup {r.g : r \in requests}
    \cup {clicks[k].item : k \in 1..Len(clicks)}
    \cup UNION {{savedOutfits[k].items[j] : j \in 1..Len(savedOutfits[k].items)} :
                 k \in 1..Len(savedOutfits)}
    \cup {chain.g, scn.g1}

FreeCustomIds == CustomIds \ UsedGarmentIds

\* A call joins those in flight; n tells it apart from an identical one.
Launch(tasks, call) ==
  tasks \cup {[call EXCEPT !.n = Fresh({t.n : t \in {u \in tasks : [u EXCEPT !.n = 0] = call}})]}

\* ------------------------------------------------------------ local storage
\* localStorage.getItem returns null: nothing was ever stored under the key.
Absent == [present |-> FALSE, json |-> <<>>]

\* JSON.stringify of a saved list: an undefined element of an items array
\* becomes null; strings, numbers and null are written as they are.
Serialize(list) ==
  [present |-> TRUE,
   json |-> [k \in 1..Len(list) |->
               [list[k] EXCEPT !.items =
                  [j \in 1..Len(list[k].items) |->
                     IF list[k].items[j] = Undef THEN Null ELSE list[k].items[j]]]]]

\* JSON.parse of a stored value
Parse(stored) == stored.json

\* The queued setSavedOutfits of the load effect was rendered (or there was
\* nothing to load).
Mounted == [pc |-> "mounted", list |-> <<>>]

\* ------------------------------------------------ generation gateway replies
NoData == [mimeType |-> "", data |-> 0]        \* a part without inlineData

SeqsUpTo(S, n) == UNION {[1..k -> S] : k \in 0..n}

\* The shape of a candidate: finishReason ("" when it has none) and, for each
\* part of content.parts (<<>> when content or parts is missing), whether the
\* part has inlineData.
CandidateShapes ==
  {[finishReason |-> f, has |-> h] :
     f \in {"", "STOP", "SAFETY"}, h \in SeqsUpTo(BOOLEAN, MaxParts)}

\* response.text: a string of spaces and letters, or <<"undefined">>.
NoText == <<"undefined">>
TextValues == SeqsUpTo({" ", "a"}, MaxTextLen) \cup {NoText}

\* The response of a shape: every inlineData holds data of its own, so that
\* no two parts return the same string.
MakeResponse(shape, t) ==
  [candidates |->
     [c \in 1..Len(shape) |->
        [finishReason |-> shape[c].finishReason,
         parts |-> [p \in 1..Len(shape[c].has) |->
                      [inlineData |->
                         IF shape[c].has[p]
                           THEN [mimeType |-> "image/png", data |-> (c - 1) * MaxParts + p]
                           ELSE NoData]]]],
   text |-> t]

NoResponse == [candidates |-> <<>>, text |-> NoText]
NoResult == [ok |-> FALSE, value |-> <<"pending">>]

\* String.prototype.trim
RECURSIVE Trim(_)
Trim(t) ==
  IF t = <<>> THEN t
  ELSE IF Head(t) = " " THEN Trim(Tail(t))
  ELSE IF t[Len(t)] = " " THEN Trim(SubSeq(t, 1, Len(t) - 1))
  ELSE t

\* The inner loop of handleApiResponse: the inlineData of the first part that
\* has one, from part k on.
RECURSIVE FirstInlineData(_, _)
FirstInlineData(parts, k) ==
  IF k > Len(parts) THEN NoData
  ELSE IF parts[k].inlineData # NoData THEN parts[k].inlineData
  ELSE FirstInlineData(parts, k + 1)

\* The outer loop of handleApiResponse, from candidate c on.
RECURSIVE FirstCandidateData(_, _)
FirstCandidateData(candidates, c) ==
  IF c > Len(candidates) THEN NoData
  ELSE IF FirstInlineData(candidates[c].parts, 1) # NoData
    THEN FirstInlineData(candidates[c].parts, 1)
  ELSE FirstCandidateData(candidates, c + 1)

\* `data:${mimeType};base64,${data}`
DataUrl(inlineData) == <<"data:", inlineData.mimeType, ";base64,", inlineData.data>>

\* What handleApiResponse does after its loops found no image.
NoImageError(r) ==
  LET finishReason == IF Len(r.candidates) > 0 THEN r.candidates[1].finishReason ELSE ""
      textFeedback == IF r.text = NoText THEN <<>> ELSE Trim(r.text)
  IN IF finishReason # "" /\ finishReason # "STOP"
       THEN [ok |-> FALSE, value |-> <<"Image generation stopped. Reason: ", finishReason>>]
     ELSE IF textFeedback # <<>>
       THEN [ok |-> FALSE, value |-> textFeedback]
     ELSE [ok |-> FALSE, value |-> <<"AI did not return an image.">>]

\* Mutant of handleApiResponse: only the first candidate is searched.
handleApiResponse_FirstCandidateOnly(r) ==
  LET found == IF Len(r.candidates) > 0
                 THEN FirstInlineData(r.candidates[1].parts, 1) ELSE NoData
  IN IF found # NoData THEN [ok |-> TRUE, value |-> DataUrl(found)]
     ELSE NoImageError(r)

\* geminiService.handleApiResponse: ok with the returned string, or not ok
\* with the message of the Error thrown.
handleApiResponse(r) ==
  LET found == FirstCandidateData(r.candidates, 1)
  IN IF found # NoData THEN [ok |-> TRUE, value |-> DataUrl(found)]
     ELSE NoImageError(r)

\* ------------------------------------------------------------------- Init
Init ==
  /\ modelImageUrl = NoImage
  /\ outfitHistory = <<>>
  /\ currentOutfitIndex = 0
  /\ isLoading = FALSE
  /\ loadingMessage = ""
  /\ error = ""
  /\ currentPoseIndex = 0
  /\ wardrobe = defaultWardrobe
  /\ videoUrls = <<>>
  /\ isVideoLoading = FALSE
  /\ clicks = <<>>
  /\ requests = {}
  /\ videoTasks = <<>>
  /\ savedOutfits = <<>>
  /\ response = NoResponse
  /\ result = NoResult
  /\ storage = Serialize(<<>>)
  /\ mount = Mounted
  /\ chain = NoChain
  /\ scn = NoScn

\* ------------------------------------------------------------- operations
\* StartScreen's confirm button: onModelFinalized(generatedModelUrl).
handleModelFinalized ==
  /\ ~OnDressingScreen
  /\ modelImageUrl' = ModelImage
  /\ outfitHistory' = <<[garment |-> Null,
                         poseImages |-> <<[pose |-> 0, img |-> ModelImage]>>]>>
  /\ currentOutfitIndex' = 0
  /\ chain' = NoChain
  /\ scn' = IF Idle /\ FreshState THEN [st |-> 0, g1 |-> Null] ELSE NoScn
  /\ UNCHANGED <<storage, mount, response, result, savedOutfits, isLoading, loadingMessage, error, currentPoseIndex, wardrobe,
                 videoUrls, isVideoLoading, clicks, requests, videoTasks>>

handleStartOver ==
  /\ OnDressingScreen
  /\ modelImageUrl' = NoImage
  /\ outfitHistory' = <<>>
  /\ currentOutfitIndex' = 0
  /\ isLoading' = FALSE
  /\ loadingMessage' = ""
  /\ error' = ""
  /\ currentPoseIndex' = 0
  /\ wardrobe' = defaultWardrobe
  /\ videoUrls' = <<>>
  /\ chain' = NoChain
  /\ scn' = NoScn
  /\ UNCHANGED <<storage, mount, response, result, savedOutfits, isVideoLoading, clicks, requests, videoTasks>>

\* Mutant of GarmentClosure: the redo test looks at the layer under the cursor
\* instead of the layer after it.
GarmentClosure_ComparesActiveLayer(item) ==
  [item |-> item,
   ok |-> displayImageUrl # NoImage,
   tag |-> displayImageUrl.pose,
   isLoading |-> isLoading,
   pose |-> currentPoseIndex,
   idx |-> currentOutfitIndex,
   redo |-> At(outfitHistory, currentOutfitIndex).garment = item]

\* What the body of handleGarmentSelect reads from the render it was created
\* in (its useCallback dependency list), for a call with garment `item`:
\* displayImageUrl (ok: it is set; tag: the pose it shows), isLoading,
\* currentPoseIndex, currentOutfitIndex, and whether the layer after the cursor
\* holds this garment.
GarmentClosure(item) ==
  [item |-> item,
   ok |-> displayImageUrl # NoImage,
   tag |-> displayImageUrl.pose,
   isLoading |-> isLoading,
   pose |-> currentPoseIndex,
   idx |-> currentOutfitIndex,
   redo |-> At(outfitHistory, currentOutfitIndex + 1).garment = item]

\* Mutant of GarmentClickAccepted: active items stay clickable.
GarmentClickAccepted_NoActiveCheck(item) == ~PanelLoading

\* WardrobePanel's guard: a click on a disabled or active item does nothing.
GarmentClickAccepted(item) ==
  ~PanelLoading /\ item \notin activeGarmentIds

\* WardrobePanel.handleGarmentClick up to its await of urlToFile.
handleGarmentClick(item) ==
  /\ OnDressingScreen
  /\ GarmentClickAccepted(item)
  /\ Len(clicks) < MaxClicks
  /\ clicks' = Append(clicks, GarmentClosure(item))
  /\ chain' = IF chain.k = "undo"
                THEN [chain EXCEPT !.k = "click", !.g = item]
                ELSE [NoChain EXCEPT !.k = "click", !.g = item]
  /\ scn' = IF scn.st = 0 THEN [st |-> 1, g1 |-> item]
            ELSE IF scn.st = 6 /\ item = scn.g1 THEN [scn EXCEPT !.st = 7]
            ELSE IF scn.st = 8 /\ item # scn.g1 THEN [scn EXCEPT !.st = 9]
            ELSE NoScn
  /\ UNCHANGED <<storage, mount, response, result, savedOutfits, modelImageUrl, outfitHistory, currentOutfitIndex, isLoading,
                 loadingMessage, error, currentPoseIndex, wardrobe, videoUrls,
                 isVideoLoading, requests, videoTasks>>

\* The first guard of handleGarmentSelect, evaluated in closure c.
GarmentSelectAccepted(c) == c.ok /\ ~c.isLoading

\* A click ends without a call that changes App state: urlToFile rejects (the
\* panel shows its own error), or handleGarmentSelect returns at its guard.
GarmentClickDropped(i) ==
  /\ i \in 1..Len(clicks)
  /\ clicks' = RemoveAt(clicks, i)
  /\ chain' = NoChain
  /\ scn' = NoScn
  /\ UNCHANGED <<storage, mount, response, result, savedOutfits, modelImageUrl, outfitHistory, currentOutfitIndex, isLoading,
                 loadingMessage, error, currentPoseIndex, wardrobe, videoUrls,
                 isVideoLoading, requests, videoTasks>>

\* handleGarmentSelect, redo fast path (App.tsx 133-138), run with closure c.
GarmentFastPath(c) ==
  /\ GarmentSelectAccepted(c)
  /\ c.redo
  /\ currentOutfitIndex' = currentOutfitIndex + 1
  /\ currentPoseIndex' = 0
  /\ UNCHANGED <<storage, mount, response, result, savedOutfits, modelImageUrl, outfitHistory, isLoading, loadingMessage, error,
                 wardrobe, videoUrls, isVideoLoading, requests, videoTasks>>

\* The compositing call of closure c: what its continuation still reads, and
\* what tells its result apart (garment g composited into an image of pose tag).
GarmentRequest(c) ==
  [kind |-> "garment", n |-> 0, g |-> c.item, tag |-> c.tag, pose |-> c.pose,
   idx |-> c.idx, prevPose |-> c.pose]

\* handleGarmentSelect, slow path up to its await (App.tsx 140-146).
GarmentSlowPath(c) ==
  /\ GarmentSelectAccepted(c)
  /\ ~c.redo
  /\ c.idx + 2 <= MaxLayers
  /\ Cardinality(requests) < MaxInFlight
  /\ error' = ""
  /\ isLoading' = TRUE
  /\ loadingMessage' = "garment"
  /\ requests' = Launch(requests, GarmentRequest(c))
  /\ UNCHANGED <<storage, mount, response, result, savedOutfits, modelImageUrl, outfitHistory, currentOutfitIndex, currentPoseIndex,
                 wardrobe, videoUrls, isVideoLoading, videoTasks>>

\* urlToFile resolves and the click's onGarmentSelect takes the fast path.
GarmentClickRedo(i) ==
  /\ i \in 1..Len(clicks)
  /\ GarmentFastPath(clicks[i])
  /\ clicks' = RemoveAt(clicks, i)
  /\ chain' = IF chain.k = "click" /\ i = Len(clicks)
                THEN [chain EXCEPT !.k = "redo"] ELSE NoChain
  /\ scn' = IF scn.st = 7 THEN [scn EXCEPT !.st = 8] ELSE NoScn

\* urlToFile resolves and the click's onGarmentSelect issues a compositing request.
GarmentClickApply(i) ==
  /\ i \in 1..Len(clicks)
  /\ GarmentSlowPath(clicks[i])
  /\ clicks' = RemoveAt(clicks, i)
  /\ chain' = IF chain.k = "click" /\ i = Len(clicks)
                THEN [chain EXCEPT !.k = "issued", !.rq = requests' \ requests]
                ELSE NoChain
  /\ scn' = IF scn.st \in {1, 9} THEN [scn EXCEPT !.st = scn.st + 1] ELSE NoScn

\* WardrobePanel.handleFileChange: an uploaded image becomes a garment with a
\* fresh id and onGarmentSelect is called at once, in the current render.
handleFileChange ==
  /\ OnDressingScreen
  /\ ~PanelLoading
  /\ FreeCustomIds # {}
  /\ LET id == CHOOSE g \in FreeCustomIds : \A h \in FreeCustomIds : g <= h IN
       /\ GarmentSlowPath(GarmentClosure(id))
       /\ chain' = IF chain.k = "undo"
                     THEN [chain EXCEPT !.k = "issued", !.g = id, !.rq = requests' \ requests]
                     ELSE [NoChain EXCEPT !.k = "issued", !.g = id, !.rq = requests' \ requests]
  /\ scn' = IF scn.st = 8 THEN [scn EXCEPT !.st = 10] ELSE NoScn
  /\ UNCHANGED clicks

\* prev => prev.find(id) ? prev : [...prev, garmentInfo]
AddToWardrobe(w, item) ==
  IF \E k \in 1..Len(w) : w[k] = item THEN w ELSE Append(w, item)

\* Mutant of TruncateAndAppend: the layers beyond the cursor are kept.
TruncateAndAppend_KeepsTail(prevHistory, idx, newLayer) ==
  Append(prevHistory, newLayer)

\* What the functional update of App.tsx 154-157 returns for prevHistory.
TruncateAndAppend(prevHistory, idx, newLayer) ==
  Append(Slice(prevHistory, idx + 1), newLayer)

\* generateVirtualTryOnImage resolved: App.tsx 147-166 and the finally block.
\* The composite keeps the pose of the image it was made from.
GarmentSuccess(r) ==
  /\ r \in requests /\ r.kind = "garment"
  /\ LET newImageUrl == NewImage(r.g, r.tag)
         newLayer == [garment |-> r.g,
                      poseImages |-> <<[pose |-> r.pose, img |-> newImageUrl]>>]
     IN outfitHistory' = TruncateAndAppend(outfitHistory, r.idx, newLayer)
  /\ currentOutfitIndex' = currentOutfitIndex + 1
  /\ wardrobe' = AddToWardrobe(wardrobe, r.g)
  /\ videoUrls' = <<>>
  /\ isLoading' = FALSE
  /\ loadingMessage' = ""
  /\ requests' = requests \ {r}
  /\ chain' = IF chain.k = "issued" /\ r \in chain.rq
                THEN [chain EXCEPT !.k = "applied", !.rq = {}] ELSE NoChain
  /\ scn' = IF scn.st \in {2, 10} THEN [scn EXCEPT !.st = scn.st + 1] ELSE NoScn
  /\ UNCHANGED <<storage, mount, response, result, savedOutfits, modelImageUrl, error, currentPoseIndex, isVideoLoading, clicks,
                 videoTasks>>

\* Mutant of GarmentFailure: the cursor advances on the failure path too.
GarmentFailure_AdvancesCursor(r) ==
  /\ r \in requests /\ r.kind = "garment"
  /\ error' = "garmentError"
  /\ currentOutfitIndex' = currentOutfitIndex + 1
  /\ isLoading' = FALSE
  /\ loadingMessage' = ""
  /\ requests' = requests \ {r}
  /\ chain' = NoChain
  /\ scn' = NoScn
  /\ UNCHANGED <<storage, mount, response, result, savedOutfits, modelImageUrl, outfitHistory, currentPoseIndex, wardrobe,
                 videoUrls, isVideoLoading, clicks, videoTasks>>

\* generateVirtualTryOnImage rejected: the catch and finally blocks.
GarmentFailure(r) ==
  /\ r \in requests /\ r.kind = "garment"
  /\ error' = "garmentError"
  /\ isLoading' = FALSE
  /\ loadingMessage' = ""
  /\ requests' = requests \ {r}
  /\ chain' = NoChain
  /\ scn' = NoScn
  /\ UNCHANGED <<storage, mount, response, result, savedOutfits, modelImageUrl, outfitHistory, currentOutfitIndex, currentPoseIndex,
                 wardrobe, videoUrls, isVideoLoading, clicks, videoTasks>>

\* Mutant of handleRemoveLastGarment: the pose index is kept.
handleRemoveLastGarment_KeepsPose ==
  /\ OnDressingScreen
  /\ currentOutfitIndex > 0
  /\ currentOutfitIndex' = currentOutfitIndex - 1
  /\ videoUrls' = <<>>
  /\ chain' = [NoChain EXCEPT !.k = "undo", !.hist = outfitHistory,
                              !.idx = currentOutfitIndex,
                              !.pose = currentPoseIndex, !.vids = Len(videoUrls)]
  /\ scn' = IF scn.st = 5 THEN [scn EXCEPT !.st = 6] ELSE NoScn
  /\ UNCHANGED <<storage, mount, response, result, savedOutfits, modelImageUrl, outfitHistory, isLoading, loadingMessage, error,
                 wardrobe, isVideoLoading, clicks, requests, videoTasks, currentPoseIndex>>

\* OutfitStack's remove button.
handleRemoveLastGarment ==
  /\ OnDressingScreen
  /\ currentOutfitIndex > 0
  /\ currentOutfitIndex' = currentOutfitIndex - 1
  /\ currentPoseIndex' = 0
  /\ videoUrls' = <<>>
  /\ chain' = [NoChain EXCEPT !.k = "undo", !.hist = outfitHistory,
                              !.idx = currentOutfitIndex,
                              !.pose = currentPoseIndex, !.vids = Len(videoUrls)]
  /\ scn' = IF scn.st = 5 THEN [scn EXCEPT !.st = 6] ELSE NoScn
  /\ UNCHANGED <<storage, mount, response, result, savedOutfits, modelImageUrl, outfitHistory, isLoading, loadingMessage, error,
                 wardrobe, isVideoLoading, clicks, requests, videoTasks>>

\* Mutant of PoseSelectAccepted: the isLoading guard is missing.
PoseSelectAccepted_IgnoresLoading(newIndex) ==
  /\ Len(outfitHistory) # 0
  /\ newIndex # currentPoseIndex
  /\ ~IsHole(At(outfitHistory, currentOutfitIndex))

\* handlePoseSelect passes its first guard and finds a layer under the cursor
\* (an undefined layer makes the handler throw before any update).
PoseSelectAccepted(newIndex) ==
  /\ ~isLoading
  /\ Len(outfitHistory) # 0
  /\ newIndex # currentPoseIndex
  /\ ~IsHole(At(outfitHistory, currentOutfitIndex))

\* handlePoseSelect, the pose is cached in the active layer (App.tsx 190-193).
PoseSelectCached(newIndex) ==
  /\ OnDressingScreen
  /\ PoseSelectAccepted(newIndex)
  /\ HasPose(At(outfitHistory, currentOutfitIndex).poseImages, newIndex)
  /\ currentPoseIndex' = newIndex
  /\ chain' = NoChain
  /\ scn' = NoScn
  /\ UNCHANGED <<storage, mount, response, result, savedOutfits, modelImageUrl, outfitHistory, currentOutfitIndex, isLoading,
                 loadingMessage, error, wardrobe, videoUrls, isVideoLoading,
                 clicks, requests, videoTasks>>

\* The regeneration call for pose newIndex from image base.
PoseRequest(base, newIndex) ==
  [kind |-> "pose", n |-> 0, g |-> base.g, tag |-> newIndex, pose |-> newIndex,
   idx |-> currentOutfitIndex, prevPose |-> currentPoseIndex]

\* handlePoseSelect, the pose is missing: up to its await (App.tsx 195-206).
PoseSelectGenerate(newIndex) ==
  /\ OnDressingScreen
  /\ PoseSelectAccepted(newIndex)
  /\ LET currentLayer == At(outfitHistory, currentOutfitIndex) IN
       /\ ~HasPose(currentLayer.poseImages, newIndex)
       /\ Len(currentLayer.poseImages) > 0
       /\ Cardinality(requests) < MaxInFlight
       /\ requests' = Launch(requests, PoseRequest(currentLayer.poseImages[1].img, newIndex))
  /\ error' = ""
  /\ isLoading' = TRUE
  /\ loadingMessage' = "pose"
  /\ currentPoseIndex' = newIndex
  /\ chain' = NoChain
  /\ scn' = IF scn.st = 3 /\ newIndex = 1 THEN [scn EXCEPT !.st = 4] ELSE NoScn
  /\ UNCHANGED <<storage, mount, response, result, savedOutfits, modelImageUrl, outfitHistory, currentOutfitIndex, wardrobe,
                 videoUrls, isVideoLoading, clicks, videoTasks>>

\* Mutant of MergePose: the new entry replaces the layer's poseImages.
MergePose_Overwrites(prevHistory, idx, p, img) ==
  LET old == IF IsHole(At(prevHistory, idx))
               THEN [garment |-> Undef, poseImages |-> <<>>]
               ELSE At(prevHistory, idx)
      updatedLayer == [old EXCEPT !.poseImages = <<[pose |-> p, img |-> img]>>]
  IN [k \in 1..Max(Len(prevHistory), idx + 1) |->
        IF k = idx + 1 THEN updatedLayer
        ELSE IF k <= Len(prevHistory) THEN prevHistory[k] ELSE Hole]

\* What the functional update of App.tsx 207-213 returns for prevHistory: the
\* layer at idx is copied with the new entry merged in; an index past the end
\* leaves empty slots before it.
MergePose(prevHistory, idx, p, img) ==
  LET old == IF IsHole(At(prevHistory, idx))
               THEN [garment |-> Undef, poseImages |-> <<>>]
               ELSE At(prevHistory, idx)
      updatedLayer == [old EXCEPT !.poseImages = PutPose(@, p, img)]
  IN [k \in 1..Max(Len(prevHistory), idx + 1) |->
        IF k = idx + 1 THEN updatedLayer
        ELSE IF k <= Len(prevHistory) THEN prevHistory[k] ELSE Hole]

\* generatePoseVariation resolved: App.tsx 207-214 and the finally block.
PoseSuccess(r) ==
  /\ r \in requests /\ r.kind = "pose"
  /\ outfitHistory' = MergePose(outfitHistory, r.idx, r.pose, NewImage(r.g, r.tag))
  /\ videoUrls' = <<>>
  /\ isLoading' = FALSE
  /\ loadingMessage' = ""
  /\ requests' = requests \ {r}
  /\ chain' = NoChain
  /\ scn' = IF scn.st = 4 THEN [scn EXCEPT !.st = 5] ELSE NoScn
  /\ UNCHANGED <<storage, mount, response, result, savedOutfits, modelImageUrl, currentOutfitIndex, error, currentPoseIndex,
                 wardrobe, isVideoLoading, clicks, videoTasks>>

\* Mutant of PoseFailure: the optimistic pose index is not rolled back.
PoseFailure_NoRollback(r) ==
  /\ r \in requests /\ r.kind = "pose"
  /\ error' = "poseError"
  /\ isLoading' = FALSE
  /\ loadingMessage' = ""
  /\ requests' = requests \ {r}
  /\ chain' = NoChain
  /\ scn' = NoScn
  /\ UNCHANGED <<storage, mount, response, result, savedOutfits, modelImageUrl, outfitHistory, currentOutfitIndex, currentPoseIndex,
                 wardrobe, videoUrls, isVideoLoading, clicks, videoTasks>>

\* generatePoseVariation rejected: the catch and finally blocks.
PoseFailure(r) ==
  /\ r \in requests /\ r.kind = "pose"
  /\ error' = "poseError"
  /\ currentPoseIndex' = r.prevPose
  /\ isLoading' = FALSE
  /\ loadingMessage' = ""
  /\ requests' = requests \ {r}
  /\ chain' = NoChain
  /\ scn' = NoScn
  /\ UNCHANGED <<storage, mount, response, result, savedOutfits, modelImageUrl, outfitHistory, currentOutfitIndex, wardrobe,
                 videoUrls, isVideoLoading, clicks, videoTasks>>

\* array.indexOf(x), 0-based, -1 when x is not an element
IndexOf(s, x) ==
  IF \E k \in 1..Len(s) : s[k] = x
    THEN (CHOOSE k \in 1..Len(s) : s[k] = x /\ \A j \in 1..(k - 1) : s[j] # x) - 1
    ELSE -1

\* The pose Canvas.handleNextPose hands to onSelectPose: the key after the
\* current one in availablePoseKeys, which are in insertion order, and past
\* their end, or when the current pose is not among them, the pose after the
\* current one in the pose list.
NextPoseIndex ==
  LET currentIndexInAvailable == IndexOf(availablePoseKeys, currentPoseIndex) IN
    IF currentIndexInAvailable = -1 \/ Len(availablePoseKeys) = 0
      THEN (currentPoseIndex + 1) % NumPoses
    ELSE IF currentIndexInAvailable + 1 < Len(availablePoseKeys)
      THEN availablePoseKeys[currentIndexInAvailable + 2]
    ELSE (currentPoseIndex + 1) % NumPoses

\* Canvas's next-pose arrow: handleNextPose and the handlePoseSelect it calls.
handleNextPose ==
  /\ displayImageUrl # NoImage
  /\ ~isLoading
  /\ \/ PoseSelectCached(NextPoseIndex)
     \/ PoseSelectGenerate(NextPoseIndex)

\* The video button of Canvas is rendered and enabled.
VideoButtonEnabled ==
  ~PanelLoading /\ displayImageUrl # NoImage /\ Len(videoUrls) < 2

\* handleGenerateVideo up to its await of hasSelectedApiKey (App.tsx 225-228).
\* The image passed to generateVideo later is the one of this render.
handleGenerateVideo ==
  /\ OnDressingScreen
  /\ VideoButtonEnabled
  /\ displayImageUrl # NoImage /\ ~isVideoLoading
  /\ Len(videoTasks) < MaxVideoTasks
  /\ videoTasks' = Append(videoTasks, [pc |-> "hasKey", src |-> displayImageUrl])
  /\ chain' = NoChain
  /\ scn' = NoScn
  /\ UNCHANGED <<storage, mount, response, result, savedOutfits, modelImageUrl, outfitHistory, currentOutfitIndex, isLoading,
                 loadingMessage, error, currentPoseIndex, wardrobe, videoUrls,
                 isVideoLoading, clicks, requests>>

\* hasSelectedApiKey resolved false: openSelectKey is awaited (App.tsx 229-231).
VideoNeedsKey(i) ==
  /\ i \in 1..Len(videoTasks)
  /\ videoTasks[i].pc = "hasKey"
  /\ videoTasks' = [videoTasks EXCEPT ![i].pc = "selectKey"]
  /\ chain' = NoChain
  /\ scn' = NoScn
  /\ UNCHANGED <<storage, mount, response, result, savedOutfits, modelImageUrl, outfitHistory, currentOutfitIndex, isLoading,
                 loadingMessage, error, currentPoseIndex, wardrobe, videoUrls,
                 isVideoLoading, clicks, requests>>

\* A key is there (or was just selected): App.tsx 233-238 up to the await of
\* generateVideo.
VideoStart(i) ==
  /\ i \in 1..Len(videoTasks)
  /\ videoTasks[i].pc \in {"hasKey", "selectKey"}
  /\ videoTasks' = [videoTasks EXCEPT ![i].pc = "generating"]
  /\ isVideoLoading' = TRUE
  /\ error' = ""
  /\ loadingMessage' = "video"
  /\ chain' = NoChain
  /\ scn' = NoScn
  /\ UNCHANGED <<storage, mount, response, result, savedOutfits, modelImageUrl, outfitHistory, currentOutfitIndex, isLoading,
                 currentPoseIndex, wardrobe, videoUrls, clicks, requests>>

\* Mutant of VideoSuccess: the finally block is skipped on the success path.
VideoSuccess_KeepsBusy(i) ==
  /\ i \in 1..Len(videoTasks)
  /\ videoTasks[i].pc = "generating"
  /\ videoUrls' = LastTwo(Append(videoUrls, NewVideo(videoTasks[i].src)))
  /\ videoTasks' = RemoveAt(videoTasks, i)
  /\ chain' = NoChain
  /\ scn' = NoScn
  /\ UNCHANGED <<storage, mount, response, result, savedOutfits, modelImageUrl, outfitHistory, currentOutfitIndex, isLoading, error,
                 currentPoseIndex, wardrobe, clicks, requests, isVideoLoading,
                 loadingMessage>>

\* generateVideo resolved: App.tsx 239 and the finally block.
VideoSuccess(i) ==
  /\ i \in 1..Len(videoTasks)
  /\ videoTasks[i].pc = "generating"
  /\ videoUrls' = LastTwo(Append(videoUrls, NewVideo(videoTasks[i].src)))
  /\ isVideoLoading' = FALSE
  /\ loadingMessage' = ""
  /\ videoTasks' = RemoveAt(videoTasks, i)
  /\ chain' = NoChain
  /\ scn' = NoScn
  /\ UNCHANGED <<storage, mount, response, result, savedOutfits, modelImageUrl, outfitHistory, currentOutfitIndex, isLoading, error,
                 currentPoseIndex, wardrobe, clicks, requests>>

\* generateVideo when the finished operation carries an error or no video:
\* operation.error is never read, downloadLink is undefined, and the code
\* fetches `undefined&key=...` (geminiService.ts 127-130). That relative URL
\* is answered by the page's own server; when the fetch resolves, whatever
\* status it has, its body becomes a blob URL that is returned and stored like
\* a video (a reference made from no image). When the fetch rejects, the call
\* throws and VideoFailure follows.
VideoBrokenDownload(i) ==
  /\ i \in 1..Len(videoTasks)
  /\ videoTasks[i].pc = "generating"
  /\ videoUrls' = LastTwo(Append(videoUrls, NewVideo(NoImage)))
  /\ isVideoLoading' = FALSE
  /\ loadingMessage' = ""
  /\ videoTasks' = RemoveAt(videoTasks, i)
  /\ chain' = NoChain
  /\ scn' = NoScn
  /\ UNCHANGED <<storage, mount, response, result, savedOutfits, modelImageUrl, outfitHistory,
                 currentOutfitIndex, isLoading, error, currentPoseIndex, wardrobe,
                 clicks, requests>>

\* generateVideo rejected with "Requested entity was not found": openSelectKey
\* is awaited inside the catch block (App.tsx 242-244).
VideoNotFound(i) ==
  /\ i \in 1..Len(videoTasks)
  /\ videoTasks[i].pc = "generating"
  /\ videoTasks' = [videoTasks EXCEPT ![i].pc = "reprompt"]
  /\ chain' = NoChain
  /\ scn' = NoScn
  /\ UNCHANGED <<storage, mount, response, result, savedOutfits, modelImageUrl, outfitHistory, currentOutfitIndex, isLoading,
                 loadingMessage, error, currentPoseIndex, wardrobe, videoUrls,
                 isVideoLoading, clicks, requests>>

\* Mutant of VideoFailure: after the re-prompt the request is issued again.
VideoFailure_Retries(i) ==
  /\ i \in 1..Len(videoTasks)
  /\ videoTasks[i].pc \in {"generating", "reprompt"}
  /\ IF videoTasks[i].pc = "reprompt"
       THEN /\ videoTasks' = [videoTasks EXCEPT ![i].pc = "generating"]
            /\ UNCHANGED <<error, isVideoLoading, loadingMessage>>
       ELSE /\ error' = "videoError"
            /\ isVideoLoading' = FALSE
            /\ loadingMessage' = ""
            /\ videoTasks' = RemoveAt(videoTasks, i)
  /\ chain' = NoChain
  /\ scn' = NoScn
  /\ UNCHANGED <<storage, mount, response, result, savedOutfits, modelImageUrl, outfitHistory, currentOutfitIndex, isLoading,
                 currentPoseIndex, wardrobe, videoUrls, clicks, requests>>

\* The rest of the catch block and the finally block (App.tsx 246-250): after
\* any other rejection, or after the re-prompt.
VideoFailure(i) ==
  /\ i \in 1..Len(videoTasks)
  /\ videoTasks[i].pc \in {"generating", "reprompt"}
  /\ error' = "videoError"
  /\ isVideoLoading' = FALSE
  /\ loadingMessage' = ""
  /\ videoTasks' = RemoveAt(videoTasks, i)
  /\ chain' = NoChain
  /\ scn' = NoScn
  /\ UNCHANGED <<storage, mount, response, result, savedOutfits, modelImageUrl, outfitHistory, currentOutfitIndex, isLoading,
                 currentPoseIndex, wardrobe, videoUrls, clicks, requests>>

\* array.filter(keep), for a set of kept values
SelectIn(s, keep) ==
  LET F[i \in 0..Len(s)] ==
        IF i = 0 THEN <<>>
        ELSE IF s[i] \in keep THEN Append(F[i - 1], s[i]) ELSE F[i - 1]
  IN F[Len(s)]

\* activeOutfitLayers.map(layer => layer.garment).filter(item => item !== null):
\* map and filter skip the empty slots of a sparse array, undefined passes.
currentItems ==
  LET garments == [k \in 1..Len(activeOutfitLayers) |-> activeOutfitLayers[k].garment]
  IN SelectIn(garments, {garments[k] : k \in 1..Len(garments)} \ {Null, HoleMark})

\* The save button of Canvas is rendered.
SaveButtonShown == ~PanelLoading /\ displayImageUrl # NoImage

\* Date.now() at a save: later than the time of every outfit still saved.
NewSavedId == Fresh({savedOutfits[k].id : k \in 1..Len(savedOutfits)})

\* Mutant of handleSaveOutfit: the garments of every layer of outfitHistory are
\* saved, the layers beyond the cursor included.
handleSaveOutfit_WholeHistory ==
  /\ OnDressingScreen
  /\ SaveButtonShown
  /\ displayImageUrl # NoImage
  /\ Len(savedOutfits) < MaxSaved
  /\ LET garments == [k \in 1..Len(outfitHistory) |-> outfitHistory[k].garment]
         newSaved == [id |-> NewSavedId, imageUrl |-> displayImageUrl,
                      items |-> SelectIn(garments, {garments[k] : k \in 1..Len(garments)} \ {Null, HoleMark})]
     IN savedOutfits' = <<newSaved>> \o savedOutfits
  /\ storage' = Serialize(savedOutfits')
  /\ UNCHANGED <<mount, response, result, modelImageUrl, outfitHistory, currentOutfitIndex, isLoading,
                 loadingMessage, error, currentPoseIndex, wardrobe, videoUrls,
                 isVideoLoading, clicks, requests, videoTasks, chain, scn>>

\* The save button of Canvas: handleSaveOutfit (App.tsx 253-268).
handleSaveOutfit ==
  /\ OnDressingScreen
  /\ SaveButtonShown
  /\ displayImageUrl # NoImage
  /\ Len(savedOutfits) < MaxSaved
  /\ LET newSaved == [id |-> NewSavedId, imageUrl |-> displayImageUrl,
                      items |-> currentItems]
     IN savedOutfits' = <<newSaved>> \o savedOutfits
  /\ storage' = Serialize(savedOutfits')
  /\ UNCHANGED <<mount, response, result, modelImageUrl, outfitHistory, currentOutfitIndex, isLoading,
                 loadingMessage, error, currentPoseIndex, wardrobe, videoUrls,
                 isVideoLoading, clicks, requests, videoTasks, chain, scn>>

\* The delete button of a saved outfit: prev.filter(o => o.id !== id).
handleDeleteSavedOutfit(id) ==
  /\ OnDressingScreen
  /\ \E k \in 1..Len(savedOutfits) : savedOutfits[k].id = id
  /\ savedOutfits' = SelectIn(savedOutfits,
                              {savedOutfits[k] : k \in {j \in 1..Len(savedOutfits) :
                                                          savedOutfits[j].id # id}})
  /\ storage' = Serialize(savedOutfits')
  /\ UNCHANGED <<mount, response, result, modelImageUrl, outfitHistory, currentOutfitIndex, isLoading,
                 loadingMessage, error, currentPoseIndex, wardrobe, videoUrls,
                 isVideoLoading, clicks, requests, videoTasks, chain, scn>>

\* Mutant of Reload: the save effect runs before the load effect.
Reload_WritesBeforeRead ==
  /\ mount = Mounted
  /\ modelImageUrl' = NoImage
  /\ outfitHistory' = <<>>
  /\ currentOutfitIndex' = 0
  /\ isLoading' = FALSE
  /\ loadingMessage' = ""
  /\ error' = ""
  /\ currentPoseIndex' = 0
  /\ wardrobe' = defaultWardrobe
  /\ videoUrls' = <<>>
  /\ isVideoLoading' = FALSE
  /\ clicks' = <<>>
  /\ requests' = {}
  /\ videoTasks' = <<>>
  /\ savedOutfits' = <<>>
  /\ storage' = Serialize(savedOutfits')
  /\ mount' = [pc |-> "loading", list |-> Parse(storage')]
  /\ chain' = NoChain
  /\ scn' = NoScn
  /\ UNCHANGED <<response, result>>

\* The page is loaded again: App is constructed afresh (useState initial
\* values, App.tsx 51-62) and its mount effects run in the order they are
\* declared. The load effect (67-76) reads the stored value and queues
\* setSavedOutfits(JSON.parse(stored)); the save effect (79-81) then writes the
\* list of this first render, which is empty.
Reload ==
  /\ mount = Mounted
  /\ modelImageUrl' = NoImage
  /\ outfitHistory' = <<>>
  /\ currentOutfitIndex' = 0
  /\ isLoading' = FALSE
  /\ loadingMessage' = ""
  /\ error' = ""
  /\ currentPoseIndex' = 0
  /\ wardrobe' = defaultWardrobe
  /\ videoUrls' = <<>>
  /\ isVideoLoading' = FALSE
  /\ clicks' = <<>>
  /\ requests' = {}
  /\ videoTasks' = <<>>
  /\ savedOutfits' = <<>>
  /\ mount' = IF ~storage.present THEN Mounted
              ELSE [pc |-> "loading", list |-> Parse(storage)]
  /\ storage' = Serialize(savedOutfits')
  /\ chain' = NoChain
  /\ scn' = NoScn
  /\ UNCHANGED <<response, result>>

\* The queued setSavedOutfits is rendered and the save effect runs for the
\* new list.
MountRerender ==
  /\ mount.pc = "loading"
  /\ savedOutfits' = mount.list
  /\ storage' = Serialize(savedOutfits')
  /\ mount' = Mounted
  /\ UNCHANGED <<response, result, modelImageUrl, outfitHistory, currentOutfitIndex,
                 isLoading, loadingMessage, error, currentPoseIndex, wardrobe,
                 videoUrls, isVideoLoading, clicks, requests, videoTasks, chain, scn>>

\* ------------------------------------------------------- specifications
\* A handler is between its invocation and the update that raises its busy
\* flag: a wardrobe click awaits urlToFile, or handleGenerateVideo awaits the
\* key check or the key dialog.
Settling ==
  \/ clicks # <<>>
  \/ \E k \in 1..Len(videoTasks) : videoTasks[k].pc \in {"hasKey", "selectKey"}

\* The outfit engine (garment, undo, pose and video operations) with a user
\* who waits for a handler to raise its busy flag before acting again, and who
\* starts over only when nothing is in flight. Undo while a request is in
\* flight is part of it.
Next ==
  \/ ~Settling /\ handleModelFinalized
  \/ ~Settling /\ Idle /\ handleStartOver
  \/ ~Settling /\ \E item \in {wardrobe[k] : k \in 1..Len(wardrobe)} : handleGarmentClick(item)
  \/ Settling /\ \E i \in 1..Len(clicks) : GarmentClickDropped(i)
  \/ Settling /\ \E i \in 1..Len(clicks) : GarmentClickRedo(i)
  \/ Settling /\ \E i \in 1..Len(clicks) : GarmentClickApply(i)
  \/ ~Settling /\ handleFileChange
  \/ ~Settling /\ \E r \in requests : GarmentSuccess(r)
  \/ ~Settling /\ \E r \in requests : GarmentFailure(r)
  \/ ~Settling /\ handleRemoveLastGarment
  \/ ~Settling /\ \E newIndex \in MenuPoses : PoseSelectCached(newIndex)
  \/ ~Settling /\ \E newIndex \in MenuPoses : PoseSelectGenerate(newIndex)
  \/ ~Settling /\ \E r \in requests : PoseSuccess(r)
  \/ ~Settling /\ \E r \in requests : PoseFailure(r)
  \/ ~Settling /\ handleGenerateVideo
  \/ Settling /\ \E i \in 1..Len(videoTasks) : VideoNeedsKey(i)
  \/ Settling /\ \E i \in 1..Len(videoTasks) : VideoStart(i)
  \/ ~Settling /\ \E i \in 1..Len(videoTasks) : VideoSuccess(i)
  \/ ~Settling /\ \E i \in 1..Len(videoTasks) : VideoBrokenDownload(i)
  \/ ~Settling /\ \E i \in 1..Len(videoTasks) : VideoNotFound(i)
  \/ ~Settling /\ \E i \in 1..Len(videoTasks) : VideoFailure(i)

Spec == Init /\ [][Next]_vars

\* A generation call returns or throws: the code after its await runs.
ImageCallReturns ==
  \E r \in requests :
    GarmentSuccess(r) \/ GarmentFailure(r) \/ PoseSuccess(r) \/ PoseFailure(r)

\* generateVideo returns or throws, and the key dialog opened in the catch
\* block is closed.
VideoCallReturns ==
  \E i \in 1..Len(videoTasks) :
    VideoSuccess(i) \/ VideoBrokenDownload(i) \/ VideoNotFound(i) \/ VideoFailure(i)

\* The same, every awaited external call returning in the end.
SpecLive ==
  /\ Init /\ [][Next]_vars
  /\ WF_vars(~Settling /\ ImageCallReturns)
  /\ WF_vars(~Settling /\ VideoCallReturns)

\* The garment operations, undo and the saved-outfit list, with the same user
\* as in Next.
SavedNext ==
  \/ ~Settling /\ handleModelFinalized
  \/ ~Settling /\ \E item \in {wardrobe[k] : k \in 1..Len(wardrobe)} : handleGarmentClick(item)
  \/ Settling /\ \E i \in 1..Len(clicks) : GarmentClickRedo(i)
  \/ Settling /\ \E i \in 1..Len(clicks) : GarmentClickApply(i)
  \/ ~Settling /\ handleFileChange
  \/ ~Settling /\ \E r \in requests : GarmentSuccess(r)
  \/ ~Settling /\ handleRemoveLastGarment
  \/ ~Settling /\ handleSaveOutfit
  \/ ~Settling /\ \E id \in 1..MaxSaved : handleDeleteSavedOutfit(id)

SpecSaved == Init /\ [][SavedNext]_vars

\* The image operations with a user who may start over at any time, requests
\* in flight included: their continuations run after the reset, on the start
\* screen or in the next session.
ResetNext ==
  \/ handleModelFinalized
  \/ handleStartOver
  \/ handleFileChange
  \/ \E r \in requests : GarmentSuccess(r)
  \/ \E r \in requests : GarmentFailure(r)
  \/ handleRemoveLastGarment
  \/ \E newIndex \in MenuPoses : PoseSelectCached(newIndex)
  \/ \E newIndex \in MenuPoses : PoseSelectGenerate(newIndex)
  \/ \E r \in requests : PoseSuccess(r)
  \/ \E r \in requests : PoseFailure(r)

SpecReset == Init /\ [][ResetNext]_vars

\* handleApiResponse on its own: any response the gateway may give is handed
\* to it once.
ApiInit ==
  /\ modelImageUrl = NoImage
  /\ outfitHistory = <<>>
  /\ currentOutfitIndex = 0
  /\ isLoading = FALSE
  /\ loadingMessage = ""
  /\ error = ""
  /\ currentPoseIndex = 0
  /\ wardrobe = defaultWardrobe
  /\ videoUrls = <<>>
  /\ isVideoLoading = FALSE
  /\ clicks = <<>>
  /\ requests = {}
  /\ videoTasks = <<>>
  /\ savedOutfits = <<>>
  /\ \E shape \in SeqsUpTo(CandidateShapes, MaxCandidates), t \in TextValues :
       response = MakeResponse(shape, t)
  /\ result = NoResult
  /\ storage = Serialize(<<>>)
  /\ mount = Mounted
  /\ chain = NoChain
  /\ scn = NoScn

ApiCall ==
  /\ result = NoResult
  /\ result' = handleApiResponse(response)
  /\ UNCHANGED <<storage, mount, response, savedOutfits, modelImageUrl, outfitHistory,
                 currentOutfitIndex, isLoading, loadingMessage, error,
                 currentPoseIndex, wardrobe, videoUrls, isVideoLoading, clicks,
                 requests, videoTasks, chain, scn>>

SpecApi == ApiInit /\ [][ApiCall]_vars

\* The garment operations and the saved-outfit list over several sessions of
\* the page: nothing else runs between the mount effects and the render of
\* the list they loaded.
StorageNext ==
  \/ mount = Mounted /\ SavedNext
  \/ Reload
  \/ MountRerender

SpecStorage == Init /\ [][StorageNext]_vars

\* Pose navigation: layers are made by uploads and removed again, poses are
\* picked in the pose menu or reached with the next-pose arrow, and every
\* generation call succeeds in the end.
PoseNavNext ==
  \/ handleModelFinalized
  \/ handleFileChange
  \/ \E r \in requests : GarmentSuccess(r)
  \/ handleRemoveLastGarment
  \/ \E newIndex \in Poses : PoseSelectCached(newIndex)
  \/ \E newIndex \in Poses : PoseSelectGenerate(newIndex)
  \/ \E r \in requests : PoseSuccess(r)
  \/ handleNextPose

SpecPoseNav ==
  /\ Init /\ [][PoseNavNext]_vars
  /\ WF_vars(\E r \in requests : GarmentSuccess(r) \/ PoseSuccess(r))
  /\ WF_vars(handleNextPose)

\* The garment operations under every interleaving the event loop allows: the
\* user may act while a wardrobe click still awaits urlToFile.
RaceNext ==
  \/ handleModelFinalized
  \/ \E item \in {wardrobe[k] : k \in 1..Len(wardrobe)} : handleGarmentClick(item)
  \/ handleFileChange
  \/ handleRemoveLastGarment
  \/ \E i \in 1..Len(clicks) : GarmentClickDropped(i)
  \/ \E i \in 1..Len(clicks) : GarmentClickRedo(i)
  \/ \E i \in 1..Len(clicks) : GarmentClickApply(i)
  \/ \E r \in requests : GarmentSuccess(r)
  \/ \E r \in requests : GarmentFailure(r)

SpecRace == Init /\ [][RaceNext]_vars

\* The video and pose operations on the base layer under every interleaving:
\* the video button may be pressed again while an earlier press still awaits
\* the key check.
VideoRaceNext ==
  \/ handleModelFinalized
  \/ handleGenerateVideo
  \/ \E i \in 1..Len(videoTasks) : VideoNeedsKey(i)
  \/ \E i \in 1..Len(videoTasks) : VideoStart(i)
  \/ \E i \in 1..Len(videoTasks) : VideoSuccess(i)
  \/ \E i \in 1..Len(videoTasks) : VideoBrokenDownload(i)
  \/ \E i \in 1..Len(videoTasks) : VideoNotFound(i)
  \/ \E i \in 1..Len(videoTasks) : VideoFailure(i)
  \/ \E newIndex \in MenuPoses : PoseSelectCached(newIndex)
  \/ \E newIndex \in MenuPoses : PoseSelectGenerate(newIndex)
  \/ \E r \in requests : PoseSuccess(r)
  \/ \E r \in requests : PoseFailure(r)

SpecVideoRace == Init /\ [][VideoRaceNext]_vars

\* ----------------------------------------------------------------- claims
\* C1: on the dressing screen, after any sequence of garment applications and
\* undos (undo while a request is in flight included), the cursor lies within
\* outfitHistory and the first layer is the base layer (garment null).
C1_CursorInRange ==
  OnDressingScreen =>
    /\ 0 <= currentOutfitIndex
    /\ currentOutfitIndex <= Len(outfitHistory) - 1
    /\ outfitHistory[1].garment = Null

\* C2: when an undo is followed by applying the garment of the undone layer
\* (the layer after the cursor), the call takes the fast path: no request is
\* issued, isLoading stays false, the cursor advances by one and outfitHistory
\* is what it was before the undo.
C2_RedoRestores ==
  [][(/\ chain.k = "click"
      /\ chain.idx >= 0
      /\ chain.g = At(chain.hist, chain.idx).garment
      /\ chain'.k # "none"
      /\ chain'.idx = chain.idx)
     => /\ chain'.k = "redo"
        /\ requests' = requests
        /\ ~isLoading /\ ~isLoading'
        /\ currentOutfitIndex' = currentOutfitIndex + 1
        /\ currentOutfitIndex' = chain.idx
        /\ outfitHistory' = chain.hist]_vars

C2_Witness ==
  /\ chain.k = "redo"
  /\ chain.idx = 1
  /\ outfitHistory = chain.hist
  /\ Len(At(outfitHistory, currentOutfitIndex).poseImages) = 2

\* C3: once an application of a garment has completed (by the slow path or by
\* the fast path) and nothing else has happened, the garment is active, no
\* request is in flight for it, and a second application of the same garment
\* is not accepted: no call follows, so outfitHistory and the cursor stay.
C3_SecondApplyIgnored ==
  /\ [](chain.k \in {"applied", "redo"} =>
          chain.g \in activeGarmentIds /\ chain.rq \cap requests = {})
  /\ [][chain.k \in {"applied", "redo"} =>
          ~(chain'.k \in {"click", "issued"} /\ chain'.g = chain.g)]_vars

C3_Witness ==
  /\ chain.k = "applied"
  /\ OnDressingScreen
  /\ ~PanelLoading
  /\ \E k \in 1..Len(wardrobe) : wardrobe[k] = chain.g

\* C4 as stated: after an undo at cursor c, the successful application of a
\* garment other than the undone one leaves outfitHistory with length c.
C4_LengthIsCursorBeforeUndo ==
  (/\ chain.k = "applied"
   /\ chain.idx >= 0
   /\ chain.g # At(chain.hist, chain.idx).garment)
  => Len(outfitHistory) = chain.idx

\* C4, amended: after an undo at cursor c, the successful application of a
\* garment other than the undone one leaves outfitHistory equal to the c layers
\* below the undone one followed by the new layer: the undone tail is gone,
\* the length is c + 1 and the cursor is on the new layer.
C4_LengthIsCursorBeforeUndoPlusOne ==
  (/\ chain.k = "applied"
   /\ chain.idx >= 0
   /\ chain.g # At(chain.hist, chain.idx).garment)
  => /\ Len(outfitHistory) = chain.idx + 1
     /\ SubSeq(outfitHistory, 1, chain.idx) = SubSeq(chain.hist, 1, chain.idx)
     /\ outfitHistory[chain.idx + 1].garment = chain.g
     /\ currentOutfitIndex = chain.idx

C4_Witness ==
  /\ chain.k = "applied"
  /\ chain.idx = 1
  /\ Len(chain.hist) = 3
  /\ chain.g # At(chain.hist, chain.idx).garment

\* C5 as stated: the end-to-end scenario from a fresh Initialize, every
\* generation succeeding, whose last step (applying G2 after G1 was re-applied)
\* is said to leave [L0, L1(G2)] of length 2, L1(G1) being discarded.
C5_ScenarioAsStated ==
  LET g1 == scn.g1
      M0 == [garment |-> Null, poseImages |-> <<[pose |-> 0, img |-> ModelImage]>>]
      I1 == [g |-> g1, pose |-> 0, n |-> 1]
      I2 == [g |-> g1, pose |-> 1, n |-> 1]
      L1 == [garment |-> g1, poseImages |-> <<[pose |-> 0, img |-> I1]>>]
      L1both == [garment |-> g1,
                 poseImages |-> <<[pose |-> 0, img |-> I1], [pose |-> 1, img |-> I2]>>]
  IN /\ scn.st = 3 => outfitHistory = <<M0, L1>> /\ currentOutfitIndex = 1
     /\ scn.st = 5 => outfitHistory = <<M0, L1both>>
     /\ scn.st = 6 => currentOutfitIndex = 0 /\ Len(outfitHistory) = 2
     /\ scn.st = 8 => /\ currentOutfitIndex = 1
                      /\ requests = {} /\ ~isLoading
                      /\ outfitHistory = <<M0, L1both>>
     /\ scn.st = 11 => /\ Len(outfitHistory) = 2
                       /\ outfitHistory[1] = M0
                       /\ outfitHistory[2].garment \notin {Null, g1}

\* C5, amended: the same scenario, whose last step leaves
\* [L0, L1(G1,{pose0:I1, pose1:I2}), L2(G2,{pose0:I3})] of length 3 with the
\* cursor on L2: the cursor was on L1(G1), so no layer is discarded.
C5_Scenario ==
  LET g1 == scn.g1
      M0 == [garment |-> Null, poseImages |-> <<[pose |-> 0, img |-> ModelImage]>>]
      I1 == [g |-> g1, pose |-> 0, n |-> 1]
      I2 == [g |-> g1, pose |-> 1, n |-> 1]
      L1 == [garment |-> g1, poseImages |-> <<[pose |-> 0, img |-> I1]>>]
      L1both == [garment |-> g1,
                 poseImages |-> <<[pose |-> 0, img |-> I1], [pose |-> 1, img |-> I2]>>]
  IN /\ scn.st = 3 => outfitHistory = <<M0, L1>> /\ currentOutfitIndex = 1
     /\ scn.st = 5 => outfitHistory = <<M0, L1both>>
     /\ scn.st = 6 => currentOutfitIndex = 0 /\ Len(outfitHistory) = 2
     /\ scn.st = 8 => /\ currentOutfitIndex = 1
                      /\ requests = {} /\ ~isLoading
                      /\ outfitHistory = <<M0, L1both>>
     /\ scn.st = 11 => /\ Len(outfitHistory) = 3
                       /\ currentOutfitIndex = 2
                       /\ SubSeq(outfitHistory, 1, 2) = <<M0, L1both>>
                       /\ outfitHistory[3].garment \notin {Null, g1}
                       /\ outfitHistory[3].poseImages =
                            <<[pose |-> 0,
                               img |-> [g |-> outfitHistory[3].garment, pose |-> 0, n |-> 1]]>>

C5_Witness == scn.st = 11

\* C6: a pose selection whose pose is cached in the active layer, made while
\* no image request is loading, sets currentPoseIndex in that step, issues no
\* request, leaves isLoading false and leaves outfitHistory unchanged.
C6_CachedPoseSelect ==
  [][\A newIndex \in Poses :
       PoseSelectCached(newIndex)
       => /\ HasPose(At(outfitHistory, currentOutfitIndex).poseImages, newIndex)
          /\ currentPoseIndex' = newIndex
          /\ requests' = requests
          /\ ~isLoading /\ ~isLoading'
          /\ outfitHistory' = outfitHistory]_vars

C6_Witness ==
  /\ Len(outfitHistory) = 1
  /\ PoseKeys(outfitHistory[1].poseImages) = <<0, 1>>
  /\ currentPoseIndex = 0
  /\ ~isLoading

\* C7: a pose selection of a missing pose remembers the pose index it started
\* from, and when its regeneration call fails, currentPoseIndex is that index
\* again, outfitHistory (the layer's poseImages with it) is unchanged, error is
\* set and isLoading is false.
C7_PoseFailureRollsBack ==
  /\ [][\A newIndex \in Poses :
          PoseSelectGenerate(newIndex)
          => /\ currentPoseIndex' = newIndex
             /\ outfitHistory' = outfitHistory
             /\ \E r \in requests' \ requests :
                  r.kind = "pose" /\ r.prevPose = currentPoseIndex]_vars
  /\ [][\A r \in requests :
          PoseFailure(r)
          => /\ currentPoseIndex' = r.prevPose
             /\ outfitHistory' = outfitHistory
             /\ error' # ""
             /\ ~isLoading']_vars

C7_Witness ==
  /\ error = "poseError"
  /\ requests = {}
  /\ ~isLoading
  /\ currentPoseIndex = 1
  /\ Len(outfitHistory) = 2

\* C8: a slow-path garment application whose compositing call fails changes
\* none of outfitHistory, currentOutfitIndex, currentPoseIndex, wardrobe and
\* videoUrls, neither when it issues the call nor when the call fails; after
\* the failure error holds the failure message and isLoading is false.
C8_GarmentFailureLeavesState ==
  /\ [][(\E r \in requests' \ requests : r.kind = "garment")
        => UNCHANGED <<outfitHistory, currentOutfitIndex, currentPoseIndex,
                       wardrobe, videoUrls>>]_vars
  /\ [][\A r \in requests :
          GarmentFailure(r)
          => /\ UNCHANGED <<outfitHistory, currentOutfitIndex, currentPoseIndex,
                            wardrobe, videoUrls>>
             /\ error' = "garmentError"
             /\ ~isLoading']_vars

C8_Witness ==
  /\ error = "garmentError"
  /\ ~isLoading
  /\ requests = {}
  /\ videoUrls # <<>>
  /\ Len(outfitHistory) = 2

\* C9: each of the operations that change the cursor or the pose index (a
\* garment application that succeeds, a fast-path redo, an undo, a selection
\* of a cached pose, a pose regeneration that succeeds) leaves videoUrls empty.
C9_VideosClearedOnChange ==
  [][(\/ \E r \in requests : GarmentSuccess(r)
      \/ \E i \in 1..Len(clicks) : GarmentClickRedo(i)
      \/ handleRemoveLastGarment
      \/ \E newIndex \in Poses : PoseSelectCached(newIndex)
      \/ \E r \in requests : PoseSuccess(r))
     => videoUrls' = <<>>]_vars

\* C10: videoUrls never holds more than 2 references, and a video generation
\* that succeeds while it holds 2 drops the older one, keeps the newer one
\* first and puts the new reference last.
C10_AtMostTwoVideos ==
  /\ [](Len(videoUrls) <= 2)
  /\ [][\A i \in 1..Len(videoTasks) :
          (VideoSuccess(i) /\ Len(videoUrls) = 2)
          => /\ Len(videoUrls') = 2
             /\ videoUrls'[1] = videoUrls[2]
             /\ videoUrls'[2].src = videoTasks[i].src
             /\ videoUrls'[2] \notin {videoUrls[1], videoUrls[2]}]_vars

C10_Witness ==
  /\ Len(videoUrls) = 2
  /\ videoUrls[1].n = 2
  /\ videoUrls[2].n = 3

\* C11: whenever isLoading is true it is eventually false with loadingMessage
\* empty, and likewise isVideoLoading, provided every generation call returns
\* or throws; the step that ends a call, on its success path and on its
\* failure path alike, is the one that clears the flag and the message.
C11_BusyCleared ==
  /\ isLoading ~> (~isLoading /\ loadingMessage = "")
  /\ isVideoLoading ~> (~isVideoLoading /\ loadingMessage = "")
  /\ [][\A r \in requests :
          (GarmentSuccess(r) \/ GarmentFailure(r) \/ PoseSuccess(r) \/ PoseFailure(r))
          => ~isLoading' /\ loadingMessage' = ""]_vars
  /\ [][\A i \in 1..Len(videoTasks) :
          (VideoSuccess(i) \/ VideoFailure(i))
          => ~isVideoLoading' /\ loadingMessage' = ""]_vars

C11_Witness ==
  /\ error = "videoError"
  /\ ~isLoading /\ ~isVideoLoading /\ loadingMessage = ""
  /\ Idle
  /\ Len(outfitHistory) = 2
  /\ Len(outfitHistory[2].poseImages) = 2

\* C12: at most one image-generation request (garment compositing or pose
\* regeneration) is in flight at any time.
C12_OneImageRequest == Cardinality(requests) <= 1

\* C13: an image-generation request and a video-generation request are never
\* in flight at the same time.
C13_NoImageVideoOverlap ==
  ~(/\ requests # {}
    /\ \E k \in 1..Len(videoTasks) : videoTasks[k].pc = "generating")

\* C14: an undo happens only with the cursor above 0; it lowers the cursor by
\* exactly 1, sets the pose index to 0, empties videoUrls and leaves
\* outfitHistory, wardrobe and savedOutfits as they were. With the cursor at 0
\* the handler does nothing.
C14_RemoveLastGarmentEffect ==
  /\ [][handleRemoveLastGarment
        => /\ currentOutfitIndex > 0
           /\ currentOutfitIndex' = currentOutfitIndex - 1
           /\ currentPoseIndex' = 0
           /\ videoUrls' = <<>>
           /\ UNCHANGED <<outfitHistory, wardrobe, savedOutfits>>]_vars
  /\ [](currentOutfitIndex = 0 => ~ENABLED handleRemoveLastGarment)

C14_Witness ==
  /\ chain.k = "undo"
  /\ chain.pose = 1 /\ chain.vids > 0
  /\ currentOutfitIndex = chain.idx - 1
  /\ currentPoseIndex = 0 /\ videoUrls = <<>>
  /\ outfitHistory = chain.hist

\* C15: the step of Initialize (handleModelFinalized) leaves outfitHistory
\* equal to the single base layer {garment: null, poseImages: {pose 0: the
\* model image}}, the cursor at 0 and the pose index at 0.
C15_InitializeResets ==
  [][handleModelFinalized
     => /\ outfitHistory' = <<[garment |-> Null,
                               poseImages |-> <<[pose |-> 0, img |-> modelImageUrl']>>]>>
        /\ currentOutfitIndex' = 0
        /\ currentPoseIndex' = 0]_vars

\* C16: in every step, a layer that stays in outfitHistory (the step is not a
\* reset, and the layer is not beyond the prefix a successful garment
\* application keeps) keeps its garment and all its pose keys, and the image
\* under one of its keys changes only when a pose regeneration for that key
\* succeeds; a pose regeneration that succeeds puts its pose key into the layer
\* at its index and changes no other layer.
C16_LayersOnlyGrow ==
  [][/\ \A k \in 1..Len(outfitHistory) :
          (/\ ~IsHole(outfitHistory[k])
           /\ ~handleModelFinalized /\ ~handleStartOver
           /\ ~(\E r \in requests : GarmentSuccess(r) /\ k > r.idx + 1))
          => /\ k <= Len(outfitHistory')
             /\ outfitHistory'[k].garment = outfitHistory[k].garment
             /\ \A j \in 1..Len(outfitHistory[k].poseImages) :
                  LET e == outfitHistory[k].poseImages[j] IN
                    /\ HasPose(outfitHistory'[k].poseImages, e.pose)
                    /\ GetPose(outfitHistory'[k].poseImages, e.pose) # e.img
                         => \E r \in requests :
                              PoseSuccess(r) /\ r.idx + 1 = k /\ r.pose = e.pose
     /\ \A r \in requests :
          PoseSuccess(r)
          => /\ HasPose(outfitHistory'[r.idx + 1].poseImages, r.pose)
             /\ \A k \in 1..Len(outfitHistory) :
                  k # r.idx + 1 => outfitHistory'[k] = outfitHistory[k]]_vars

C16_Witness ==
  /\ scn.st = 5
  /\ outfitHistory[2].garment = scn.g1
  /\ PoseKeys(outfitHistory[2].poseImages) = <<0, 1>>
  /\ Len(outfitHistory[1].poseImages) = 1

\* C17: every layer of outfitHistory has at least one pose image, and whenever
\* outfitHistory is non-empty there is a layer under the cursor and the
\* displayed image is that layer's image for the current pose or, when it has
\* none, the layer's first-inserted image.
C17_DisplayedImageDefined ==
  /\ \A k \in 1..Len(outfitHistory) :
       ~IsHole(outfitHistory[k]) => Len(outfitHistory[k].poseImages) > 0
  /\ Len(outfitHistory) > 0
       => LET currentLayer == At(outfitHistory, currentOutfitIndex) IN
            /\ ~IsHole(currentLayer)
            /\ displayImageUrl # NoImage
            /\ displayImageUrl =
                 IF HasPose(currentLayer.poseImages, currentPoseIndex)
                   THEN GetPose(currentLayer.poseImages, currentPoseIndex)
                   ELSE currentLayer.poseImages[1].img

\* C18: a save puts exactly one new outfit in front of savedOutfits; its image
\* is the displayed image and its items are the garments of the layers 1 to
\* cursor of outfitHistory in that order: the base layer (garment null) and
\* the layers beyond the cursor are left out.
C18_SaveActiveOutfit ==
  [][handleSaveOutfit
     => /\ Len(savedOutfits') = Len(savedOutfits) + 1
        /\ Tail(savedOutfits') = savedOutfits
        /\ savedOutfits'[1].imageUrl = displayImageUrl
        /\ outfitHistory[1].garment = Null
        /\ savedOutfits'[1].items =
             [k \in 1..currentOutfitIndex |-> outfitHistory[k + 1].garment]
        /\ \A k \in 1..Len(savedOutfits'[1].items) :
             savedOutfits'[1].items[k] \notin {Null, Undef, HoleMark}]_vars

C18_Witness ==
  /\ Len(savedOutfits) = 2
  /\ Len(savedOutfits[2].items) = 2
  /\ savedOutfits[2].items[1] # savedOutfits[2].items[2]
  /\ savedOutfits[1].items = <<savedOutfits[2].items[1]>>
  /\ Len(outfitHistory) = 3
  /\ currentOutfitIndex = 1

\* C19: a call of handleGenerateVideo first awaits the key check; its video
\* request is issued only by the step that follows the check (a key is there)
\* or the key dialog (opened because none was), never by any other step, so a
\* failed request is not issued again. When the request fails with "Requested
\* entity was not found" the key dialog is opened once more with videoUrls as
\* it was, and the step that follows the dialog sets error, leaves videoUrls as
\* it was and ends the call.
C19_KeyCheckAndReprompt ==
  /\ [][Len(videoTasks') > Len(videoTasks)
        => /\ videoTasks' = Append(videoTasks, videoTasks'[Len(videoTasks')])
           /\ videoTasks'[Len(videoTasks')].pc = "hasKey"]_vars
  /\ [][\A i \in 1..Len(videoTasks) :
          VideoNeedsKey(i)
          => videoTasks[i].pc = "hasKey" /\ videoTasks'[i].pc = "selectKey"]_vars
  /\ [][Cardinality({k \in 1..Len(videoTasks') : videoTasks'[k].pc = "generating"})
          > Cardinality({k \in 1..Len(videoTasks) : videoTasks[k].pc = "generating"})
        => \E i \in 1..Len(videoTasks) :
             /\ VideoStart(i)
             /\ videoTasks[i].pc \in {"hasKey", "selectKey"}]_vars
  /\ [][\A i \in 1..Len(videoTasks) :
          VideoNotFound(i)
          => /\ videoTasks[i].pc = "generating"
             /\ videoTasks'[i].pc = "reprompt"
             /\ videoUrls' = videoUrls]_vars
  /\ [][\A i \in 1..Len(videoTasks) :
          (videoTasks[i].pc = "reprompt" /\ VideoFailure(i))
          => /\ error' = "videoError"
             /\ videoUrls' = videoUrls
             /\ videoTasks' = RemoveAt(videoTasks, i)]_vars
  /\ [][\A i \in 1..Len(videoTasks) :
          (videoTasks[i].pc = "reprompt" /\ i <= Len(videoTasks')
             /\ videoTasks'[i].pc # "reprompt")
          => \E j \in 1..i :
               VideoFailure(j) \/ VideoSuccess(j) \/ VideoBrokenDownload(j)]_vars

C19_Witness ==
  /\ Len(videoTasks) = 1
  /\ videoTasks[1].pc = "reprompt"
  /\ Len(videoUrls) = 1
  /\ isVideoLoading
  /\ error = ""

\* C20: for a response handed to handleApiResponse: when some part of some
\* candidate has inline data, the result is the data URL of the first such
\* part (candidates in order, then parts in order) and nothing is thrown;
\* otherwise, when the first candidate has a finish reason other than STOP,
\* the error reports that reason; otherwise the error is the trimmed text of
\* the response, or the generic no-image message when that text is empty.
C20_ApiResponse ==
  result # NoResult =>
    LET cs == response.candidates
        WithData == {p \in (1..Len(cs)) \X (1..MaxParts) :
                       /\ p[2] <= Len(cs[p[1]].parts)
                       /\ cs[p[1]].parts[p[2]].inlineData # NoData}
        Before(p, q) == p[1] < q[1] \/ (p[1] = q[1] /\ p[2] <= q[2])
    IN IF WithData # {}
         THEN LET first == CHOOSE p \in WithData : \A q \in WithData : Before(p, q)
                  d == cs[first[1]].parts[first[2]].inlineData
              IN /\ result.ok
                 /\ result.value = <<"data:", d.mimeType, ";base64,", d.data>>
       ELSE IF Len(cs) > 0 /\ cs[1].finishReason \notin {"", "STOP"}
         THEN /\ ~result.ok
              /\ result.value = <<"Image generation stopped. Reason: ", cs[1].finishReason>>
       ELSE IF response.text # NoText /\ \E k \in 1..Len(response.text) : response.text[k] # " "
         THEN /\ ~result.ok
              /\ Len(result.value) > 0
              /\ result.value[1] # " " /\ result.value[Len(result.value)] # " "
              /\ \E i \in 0..Len(response.text) :
                   /\ SubSeq(response.text, i + 1, i + Len(result.value)) = result.value
                   /\ \A k \in 1..Len(response.text) :
                        (k <= i \/ k > i + Len(result.value)) => response.text[k] = " "
       ELSE /\ ~result.ok
            /\ result.value = <<"AI did not return an image.">>

C20_Witness ==
  /\ result.ok
  /\ Len(response.candidates) = 2
  /\ response.candidates[1].finishReason = "SAFETY"
  /\ response.candidates[1].parts = <<[inlineData |-> NoData]>>
  /\ Len(response.candidates[2].parts) = 2
  /\ response.candidates[2].parts[1].inlineData = NoData
  /\ result.value = <<"data:", "image/png", ";base64,", 2 * MaxParts>>

\* C21: when the finished video operation carries an error or no generated
\* video, the call of generateVideo ends with an error: error is set and no
\* reference is added to videoUrls.
C21_FailedOperationAddsNoVideo ==
  [][\A i \in 1..Len(videoTasks) :
       VideoBrokenDownload(i) => videoUrls' = videoUrls /\ error' # ""]_vars

\* C22: once App is mounted the stored value is the serialization of
\* savedOutfits, after every save and delete included; a reload reads the
\* stored value before its mount-time write replaces it, the list it read is
\* the list the previous session held, and that list is what savedOutfits and
\* the stored value become when the load is rendered.
C22_StorageRoundTrip ==
  /\ [](mount = Mounted => storage = Serialize(savedOutfits))
  /\ [][(handleSaveOutfit \/ \E id \in 1..MaxSaved : handleDeleteSavedOutfit(id))
        => storage' = Serialize(savedOutfits')]_vars
  /\ [][Reload => mount'.pc = "loading" /\ mount'.list = savedOutfits]_vars
  /\ [][MountRerender
        => /\ savedOutfits' = mount.list
           /\ storage' = Serialize(mount.list)
           /\ Parse(storage') = mount.list]_vars

C22_Witness ==
  /\ mount.pc = "loading"
  /\ Len(mount.list) = 2
  /\ Len(mount.list[2].items) = 1
  /\ savedOutfits = <<>>
  /\ storage = Serialize(<<>>)

\* C23: when a compositing request issued at cursor c succeeds, outfitHistory
\* becomes its first c+1 layers followed by one new layer that carries the
\* applied garment and a single pose image stored under the current pose key,
\* and currentOutfitIndex is the index of that new layer, the last one.
C23_SlowPathResult ==
  [][\A r \in requests :
       GarmentSuccess(r)
       => /\ Len(outfitHistory') = r.idx + 2
          /\ Slice(outfitHistory', r.idx + 1) = Slice(outfitHistory, r.idx + 1)
          /\ outfitHistory'[r.idx + 2].garment = r.g
          /\ PoseKeys(outfitHistory'[r.idx + 2].poseImages) = <<currentPoseIndex>>
          /\ currentOutfitIndex' = Len(outfitHistory') - 1]_vars

\* C24: at most one call of generateVideo is in flight at any time.
C24_OneVideoRequest ==
  Cardinality({i \in 1..Len(videoTasks) : videoTasks[i].pc = "generating"}) <= 1

\* C25: every reference in videoUrls was made from the image now displayed,
\* and a video call that returns after the displayed image has changed adds
\* nothing to videoUrls.
C25_VideosOfDisplayedImage ==
  /\ [](\A k \in 1..Len(videoUrls) : videoUrls[k].src = displayImageUrl)
  /\ [][\A i \in 1..Len(videoTasks) :
          (VideoSuccess(i) /\ videoTasks[i].src # displayImageUrl)
          => videoUrls' = videoUrls]_vars

\* C26: between a Start Over and the next Initialize outfitHistory is empty
\* and the cursor is 0, and the return of a generation call issued before the
\* reset, whether it succeeded or failed, changes none of outfitHistory,
\* currentOutfitIndex, currentPoseIndex, wardrobe, videoUrls and error.
C26_ResetIsFinal ==
  /\ [](~OnDressingScreen => outfitHistory = <<>> /\ currentOutfitIndex = 0)
  /\ [][(/\ ~OnDressingScreen
         /\ \E r \in requests :
              \/ GarmentSuccess(r) \/ GarmentFailure(r)
              \/ PoseSuccess(r) \/ PoseFailure(r))
        => UNCHANGED <<outfitHistory, currentOutfitIndex, currentPoseIndex,
                       wardrobe, videoUrls, error>>]_vars

\* C27: isLoading is true exactly when an image-generation request (garment
\* compositing or pose regeneration) is in flight.
C27_LoadingIffInFlight == isLoading <=> requests # {}

\* C28: every image stored in a layer was produced in the pose of the key it
\* is stored under.
C28_PoseLabelsAccurate ==
  \A k \in 1..Len(outfitHistory) :
    \A j \in 1..Len(outfitHistory[k].poseImages) :
      outfitHistory[k].poseImages[j].img.pose = outfitHistory[k].poseImages[j].pose

\* C29: no garment id occurs in two layers of the active outfit, the layers
\* from the base layer to the cursor.
C29_NoGarmentTwice ==
  \A j, k \in 1..Len(activeOutfitLayers) :
    (j # k /\ ~IsHole(activeOutfitLayers[j]) /\ ~IsHole(activeOutfitLayers[k]))
    => activeOutfitLayers[j].garment # activeOutfitLayers[k].garment

\* C30: when from some point on the only steps are presses of the next-pose
\* arrow and pose regenerations that succeed, then eventually, and from then
\* on, the active layer holds an image for every pose of the pose list.
C30_NextPoseReachesAll ==
  <>[][handleNextPose \/ \E r \in requests : PoseSuccess(r)]_vars
    => <>[](OnDressingScreen =>
              \A p \in Poses : p \in {availablePoseKeys[k] : k \in 1..Len(availablePoseKeys)})

====
